---- MODULE Spec2Model ----
(***************************************************************************)
(* A model of veda_app: the REST job API (api.py: Job, JobStore, _worker   *)
(* and the generate / status / download handlers) and the Colab client     *)
(* (colab_client.py: ColabClient).                                         *)
(*                                                                         *)
(* api.py runs one event-loop thread (the async handlers, none of which    *)
(* awaits, so they run one after the other) and one daemon thread per      *)
(* generate request (_worker).  The threads share the JobStore and the Job *)
(* objects in it; they interleave between any two statements.              *)
(***************************************************************************)
EXTENDS Integers, Sequences, FiniteSets, TLC

\* ------------------------------------------------------------------ bounds

\* The number of generate requests the model follows.
MaxJobs == 2

\* The number of jobs a pasted batch lists, at most.
MaxBatch == 2

\* ------------------------------------------------------------- api.py: data

\* Optional[...] values: None is the empty sequence, a value v is <<v>>.
NoneVal == <<>>

Some(v) == <<v>>

\* The job ids: str(uuid.uuid4())[:8], eight hexadecimal digits. One more
\* than the requests followed, so that some id is always unknown to the store.
JobIds == 1..(MaxJobs + 1)

\* The Job objects ever constructed, in construction order (their identity).
JobRefs == 1..MaxJobs

\* The thread that runs the async request handlers.
EventLoop == 0

\* The threads: the event loop and the worker of each Job object.
Workers == JobRefs

\* A Job as the dataclass constructs it: the defaults of lines 68-72.
\* prompt, style, seed, upscale and num_frames are only handed on to the
\* engine, whose outcome the model leaves open; they are not kept.
Job(id) ==
  [job_id |-> id, status |-> "queued", result_path |-> NoneVal,
   error |-> NoneVal, duration_seconds |-> 0]

\* dict.get: the value under the key, or None.
DictGet(d, k) == IF k \in DOMAIN d THEN Some(d[k]) ELSE NoneVal

\* d[k] = v on a dict.
DictSet(d, k, v) == [x \in DOMAIN d \cup {k} |-> IF x = k THEN v ELSE d[x]]

\* str(e) of an exception raised in the try block of _worker.
EngineError == "engine error"

VARIABLES
  jobs,     \* the Job objects: a sequence of records, jobs[r] is object r
  store,    \* JobStore._jobs: job_id -> the Job object under it
  lock,     \* JobStore._lock: the set of threads inside `with self._lock`
  files,    \* the job ids whose outputs/api/<id>.mp4 exists on disk
  wpc,      \* each worker thread's position in _worker
  wkw,      \* the kwargs its store.update call has yet to assign
  wjob,     \* the `job` local of its store.update call
  wres,     \* what its engine call did: "none", "returned", "raised"
  hop,      \* the handler the event loop runs: "generate", "status", "download"
  hpc,      \* the event loop's position in the handler it runs
  hid,      \* the handler's job_id (the path parameter, or the new job's)
  hjob,     \* the handler's `job` local
  hresp,    \* the response under construction
  resp      \* the response to the request just handled (NoResp during one)

\* ColabClient (colab_client.py) and the threads that call it
VARIABLES
  client,        \* self.client: None, or the Client made for a URL
  colab_url,     \* self.colab_url
  connected,     \* self._is_connected
  cpc,           \* the connecting thread's position in connect / disconnect
  curl,          \* connect's local `url`
  carg,          \* connect's argument colab_url, in the call under way or last
                 \* returned
  cprev,         \* what the connect or disconnect call before this one returned
  cret,          \* what connect / disconnect last returned
  gpc,           \* the generating thread's position in generate
  gidx,          \* the index of api_name in api_names_to_try
  gresult,       \* generate's local `result`
  glast_error,   \* generate's local `last_error`
  gexc,          \* the exception being raised in generate, if any
  gcalled,       \* the requests this generate call has sent: <<endpoint, how the
                 \* request ended: "returned" or the str(e) of what it raised>>
  gret           \* what generate last returned

\* run_batch (app.py), the Batch Generation handler
VARIABLES
  bpc,           \* the batch handler's position in run_batch
  btext,         \* run_batch's argument batch_json, in the call under way or
                 \* last ended
  bjobs,         \* run_batch's local `jobs`
  bi,            \* how many jobs the for loop has been through
  bcalls,        \* the prompts colab.generate was called with in this call
  bresults,      \* run_batch's local `results`, one entry per job
  bret           \* how run_batch last ended: returned a text or raised

apiVars == <<jobs, store, lock, files, wpc, wkw, wjob, wres, hop, hpc, hid, hjob, hresp, resp>>

colabVars == <<client, colab_url, connected, cpc, curl, carg, cprev, cret, gpc, gidx,
               gresult, glast_error, gexc, gcalled, gret>>

batchVars == <<bpc, btext, bjobs, bi, bcalls, bresults, bret>>

vars == <<apiVars, colabVars, batchVars>>

\* A response: the HTTP status code, the HTTPException detail (shortened),
\* and the fields of JobResponse / JobStatusResponse / FileResponse.
Response(op, code, detail, id, status, path, error) ==
  [op |-> op, code |-> code, detail |-> detail, job_id |-> id,
   status |-> status, result_path |-> path, error |-> error]

\* No response yet.
NoResp == Response("none", 0, "", NoneVal, "", NoneVal, NoneVal)

Init ==
  /\ jobs = <<>>
  /\ store = <<>>
  /\ lock = {}
  /\ files = {}
  /\ wpc = [w \in Workers |-> "unborn"]
  /\ wkw = [w \in Workers |-> <<>>]
  /\ wjob = [w \in Workers |-> NoneVal]
  /\ wres = [w \in Workers |-> "none"]
  /\ hop = "none"
  /\ hpc = "idle"
  /\ hid = NoneVal
  /\ hjob = NoneVal
  /\ hresp = NoResp
  /\ resp = NoResp
  /\ client = NoneVal
  /\ colab_url = NoneVal
  /\ connected = FALSE
  /\ cpc = "idle"
  /\ curl = NoneVal
  /\ carg = NoneVal
  /\ cprev = <<"none", NoneVal>>
  /\ cret = <<"none", NoneVal>>
  /\ gpc = "idle"
  /\ gidx = 0
  /\ gresult = NoneVal
  /\ glast_error = NoneVal
  /\ gexc = NoneVal
  /\ gcalled = <<>>
  /\ gret = NoneVal
  /\ bpc = "idle"
  /\ btext = NoneVal
  /\ bjobs = <<>>
  /\ bi = 0
  /\ bcalls = <<>>
  /\ bresults = <<>>
  /\ bret = NoneVal

\* The ids create() has drawn so far.
Drawn == {jobs[r].job_id : r \in 1..Len(jobs)}

\* str(uuid.uuid4())[:8], line 83: a random draw. Nothing in create() looks
\* at the ids already in the store, so the draw may repeat an earlier one.
\* Ids are interchangeable, so a draw that repeats none is taken to be the
\* least id not drawn yet. A request's path parameter is likewise an id
\* drawn before or one never drawn.
IdChoices ==
  Drawn \cup {CHOOSE i \in JobIds \ Drawn : \A k \in JobIds \ Drawn : i <= k}

\* ------------------------------------------------------- JobStore._lock

\* threading.Lock.acquire: blocks until no thread holds the lock.
Acquire(t) ==
  /\ lock = {}
  /\ lock' = {t}

\* threading.Lock.release, at the end of the with block.
Release(t) == lock' = lock \ {t}

\* ------------------------------------------------------------- handlers

\* A handler returns (or raises HTTPException): the response is sent, the
\* handler's locals are gone and the event loop is free for the next request.
Return ==
  /\ hpc' = "idle"
  /\ hop' = "none"
  /\ hid' = NoneVal
  /\ hjob' = NoneVal
  /\ hresp' = NoResp

\* ----------------------------------------------------- POST /api/generate

\* A mutant of GenerateCreate: a request is taken only while no job runs.
M_GenerateCreate ==
  /\ hpc = "idle"
  /\ Len(jobs) < MaxJobs
  /\ \A r \in 1..Len(jobs) : jobs[r].status # "running"
  /\ \E id \in IdChoices :
       /\ jobs' = Append(jobs, Job(id))
       /\ hid' = Some(id)
  /\ hjob' = Some(Len(jobs) + 1)
  /\ hop' = "generate"
  /\ hresp' = NoResp
  /\ resp' = NoResp
  /\ hpc' = "create_lock"
  /\ UNCHANGED <<store, lock, files, wpc, wkw, wjob, wres>>
  /\ UNCHANGED <<colabVars, batchVars>>

\* generate -> store.create, lines 83-84: draw the id, construct the Job.
GenerateCreate ==
  /\ hpc = "idle"
  /\ Len(jobs) < MaxJobs
  /\ \E id \in IdChoices :
       /\ jobs' = Append(jobs, Job(id))
       /\ hid' = Some(id)
  /\ hjob' = Some(Len(jobs) + 1)
  /\ hop' = "generate"
  /\ hresp' = NoResp
  /\ resp' = NoResp
  /\ hpc' = "create_lock"
  /\ UNCHANGED <<store, lock, files, wpc, wkw, wjob, wres>>
  /\ UNCHANGED <<colabVars, batchVars>>

\* store.create, line 85: with self._lock.
CreateAcquire ==
  /\ hpc = "create_lock"
  /\ Acquire(EventLoop)
  /\ hpc' = "create_locked"
  /\ UNCHANGED <<jobs, store, files, wpc, wkw, wjob, wres, hop, hid, hjob, hresp, resp>>
  /\ UNCHANGED <<colabVars, batchVars>>

\* store.create, lines 86-87: self._jobs[job_id] = job, leave the with block.
CreateInsert ==
  /\ hpc = "create_locked"
  /\ store' = DictSet(store, hid[1], hjob[1])
  /\ Release(EventLoop)
  /\ hpc' = "thread_start"
  /\ UNCHANGED <<jobs, files, wpc, wkw, wjob, wres, hop, hid, hjob, hresp, resp>>
  /\ UNCHANGED <<colabVars, batchVars>>

\* generate, lines 195-200: the worker thread of the new Job object starts;
\* its first statement is store.update(job.job_id, status="running").
GenerateStartThread ==
  /\ hpc = "thread_start"
  /\ wpc' = [wpc EXCEPT ![hjob[1]] = "call_update"]
  /\ wkw' = [wkw EXCEPT ![hjob[1]] = << <<"status", "running">> >>]
  /\ hpc' = "gen_respond"
  /\ UNCHANGED <<jobs, store, lock, files, wjob, wres, hop, hid, hjob, hresp, resp>>
  /\ UNCHANGED <<colabVars, batchVars>>

\* generate, lines 204-208: JobResponse(job_id, status="queued", ...).
GenerateRespond ==
  /\ hpc = "gen_respond"
  /\ resp' = Response("generate", 200, "", Some(jobs[hjob[1]].job_id), "queued",
                      NoneVal, NoneVal)
  /\ Return
  /\ UNCHANGED <<jobs, store, lock, files, wpc, wkw, wjob, wres>>
  /\ UNCHANGED <<colabVars, batchVars>>

\* ------------------------------------------------------------- _worker

\* store.update, lines 94-95: with self._lock, job = self._jobs.get(job_id).
\* The id is the one of the Job object the thread was started with.
UpdateAcquire(w) ==
  /\ wpc[w] = "call_update"
  /\ Acquire(w)
  /\ wjob' = [wjob EXCEPT ![w] = DictGet(store, jobs[w].job_id)]
  /\ wpc' = [wpc EXCEPT ![w] = "in_update"]
  /\ UNCHANGED <<jobs, store, files, wkw, wres, hop, hpc, hid, hjob, hresp, resp>>
  /\ UNCHANGED <<colabVars, batchVars>>

\* store.update, lines 96-98: one setattr(job, k, v) of the kwargs loop,
\* with more kwargs to follow.
UpdateSetattr(w) ==
  /\ wpc[w] = "in_update"
  /\ wjob[w] # NoneVal
  /\ Len(wkw[w]) > 1
  /\ jobs' = [jobs EXCEPT ![wjob[w][1]] =
                [@ EXCEPT ![Head(wkw[w])[1]] = Head(wkw[w])[2]]]
  /\ wkw' = [wkw EXCEPT ![w] = Tail(@)]
  /\ UNCHANGED <<store, lock, files, wpc, wjob, wres, hop, hpc, hid, hjob, hresp, resp>>
  /\ UNCHANGED <<colabVars, batchVars>>

\* store.update, lines 96-98: the with block ends, after the last setattr of
\* the kwargs loop, or at once when no job is under the id. _worker goes on
\* to the try block after the "running" update and returns after the
\* "completed" / "failed" one.
UpdateRelease(w) ==
  /\ wpc[w] = "in_update"
  /\ wjob[w] = NoneVal \/ Len(wkw[w]) = 1
  /\ jobs' = IF wjob[w] = NoneVal THEN jobs
             ELSE [jobs EXCEPT ![wjob[w][1]] =
                     [@ EXCEPT ![Head(wkw[w])[1]] = Head(wkw[w])[2]]]
  /\ Release(w)
  /\ wpc' = [wpc EXCEPT ![w] = IF wres[w] = "none" THEN "try" ELSE "done"]
  /\ wkw' = [wkw EXCEPT ![w] = <<>>]
  /\ wjob' = [wjob EXCEPT ![w] = NoneVal]
  /\ UNCHANGED <<store, files, wres, hop, hpc, hid, hjob, hresp, resp>>
  /\ UNCHANGED <<colabVars, batchVars>>

\* _worker, lines 142-149: the except branch, store.update(status="failed",
\* error=str(e), duration_seconds=duration).
Failed(w, msg) ==
  /\ wres' = [wres EXCEPT ![w] = "raised"]
  /\ wkw' = [wkw EXCEPT ![w] = << <<"status", "failed">>, <<"error", Some(msg)>>,
                                  <<"duration_seconds", 1>> >>]
  /\ wpc' = [wpc EXCEPT ![w] = "call_update"]

\* _worker, lines 111-131 and 142: the configuration, the generator's
\* construction, the making of the output directory or generator.generate
\* raises an exception.
TryRaises(w) ==
  /\ wpc[w] = "try"
  /\ Failed(w, EngineError)
  /\ UNCHANGED <<jobs, store, lock, files, wjob, hop, hpc, hid, hjob, hresp, resp>>
  /\ UNCHANGED <<colabVars, batchVars>>

\* _worker, lines 112-139: nothing raises and generator.generate returns; the engine may or may
\* not have written outputs/api/<job_id>.mp4. store.update(status=
\* "completed", result_path=str(result), duration_seconds=duration) follows.
EngineReturn(w) ==
  /\ wpc[w] = "try"
  /\ files' \in {files, files \cup {jobs[w].job_id}}
  /\ wres' = [wres EXCEPT ![w] = "returned"]
  /\ wkw' = [wkw EXCEPT ![w] = << <<"status", "completed">>,
                                  <<"result_path", Some(jobs[w].job_id)>>,
                                  <<"duration_seconds", 1>> >>]
  /\ wpc' = [wpc EXCEPT ![w] = "call_update"]
  /\ UNCHANGED <<jobs, store, lock, wjob, hop, hpc, hid, hjob, hresp, resp>>
  /\ UNCHANGED <<colabVars, batchVars>>

\* ---------------------------------------- GET /api/status, /api/download

\* A status or download request arrives with some job_id.
RequestBegin(op) ==
  /\ hpc = "idle"
  /\ \E id \in IdChoices : hid' = Some(id)
  /\ hop' = op
  /\ hjob' = NoneVal
  /\ hresp' = NoResp
  /\ resp' = NoResp
  /\ hpc' = "get_lock"
  /\ UNCHANGED <<jobs, store, lock, files, wpc, wkw, wjob, wres>>
  /\ UNCHANGED <<colabVars, batchVars>>

\* store.get, line 90: with self._lock.
GetAcquire ==
  /\ hpc = "get_lock"
  /\ Acquire(EventLoop)
  /\ hpc' = "get_locked"
  /\ UNCHANGED <<jobs, store, files, wpc, wkw, wjob, wres, hop, hid, hjob, hresp, resp>>
  /\ UNCHANGED <<colabVars, batchVars>>

\* store.get, line 91: return self._jobs.get(job_id), leaving the with block.
GetLookup ==
  /\ hpc = "get_locked"
  /\ hjob' = DictGet(store, hid[1])
  /\ Release(EventLoop)
  /\ hpc' = "found_check"
  /\ UNCHANGED <<jobs, store, files, wpc, wkw, wjob, wres, hop, hid, hresp, resp>>
  /\ UNCHANGED <<colabVars, batchVars>>

\* get_status and download, `if not job: raise HTTPException(404)`.
NotFound ==
  /\ hpc = "found_check"
  /\ hjob = NoneVal
  /\ resp' = Response(hop, 404, "job not found", NoneVal, "", NoneVal, NoneVal)
  /\ Return
  /\ UNCHANGED <<jobs, store, lock, files, wpc, wkw, wjob, wres>>
  /\ UNCHANGED <<colabVars, batchVars>>

\* A mutant of StatusReadStatus: the status is the constant generate answers.
M_StatusReadStatus ==
  /\ hop = "status"
  /\ hpc = "found_check"
  /\ hjob # NoneVal
  /\ hresp' = Response("status", 200, "", Some(jobs[hjob[1]].job_id),
                       "queued", NoneVal, NoneVal)
  /\ hpc' = "read_result_path"
  /\ UNCHANGED <<jobs, store, lock, files, wpc, wkw, wjob, wres, hop, hid, hjob, resp>>
  /\ UNCHANGED <<colabVars, batchVars>>

\* get_status, lines 220-221: job.job_id and job.status are read.
StatusReadStatus ==
  /\ hop = "status"
  /\ hpc = "found_check"
  /\ hjob # NoneVal
  /\ hresp' = Response("status", 200, "", Some(jobs[hjob[1]].job_id),
                       jobs[hjob[1]].status, NoneVal, NoneVal)
  /\ hpc' = "read_result_path"
  /\ UNCHANGED <<jobs, store, lock, files, wpc, wkw, wjob, wres, hop, hid, hjob, resp>>
  /\ UNCHANGED <<colabVars, batchVars>>

\* get_status, line 222: job.result_path is read.
StatusReadResultPath ==
  /\ hpc = "read_result_path"
  /\ hresp' = [hresp EXCEPT !.result_path = jobs[hjob[1]].result_path]
  /\ hpc' = "read_error"
  /\ UNCHANGED <<jobs, store, lock, files, wpc, wkw, wjob, wres, hop, hid, hjob, resp>>
  /\ UNCHANGED <<colabVars, batchVars>>

\* get_status, lines 223-225: job.error is read and the response returned.
StatusRespond ==
  /\ hpc = "read_error"
  /\ resp' = [hresp EXCEPT !.error = jobs[hjob[1]].error]
  /\ Return
  /\ UNCHANGED <<jobs, store, lock, files, wpc, wkw, wjob, wres>>
  /\ UNCHANGED <<colabVars, batchVars>>

\* A mutant of DownloadCheckStatus: only a failed job is refused.
M_DownloadCheckStatus ==
  /\ hop = "download"
  /\ hpc = "found_check"
  /\ hjob # NoneVal
  /\ IF jobs[hjob[1]].status = "failed"
       THEN /\ resp' = Response("download", 400, "not completed", NoneVal,
                                jobs[hjob[1]].status, NoneVal, NoneVal)
            /\ Return
       ELSE /\ hpc' = "path_check"
            /\ UNCHANGED <<hop, hid, hjob, hresp, resp>>
  /\ UNCHANGED <<jobs, store, lock, files, wpc, wkw, wjob, wres>>
  /\ UNCHANGED <<colabVars, batchVars>>

\* download, lines 236-240: `if job.status != "completed": raise 400`.
DownloadCheckStatus ==
  /\ hop = "download"
  /\ hpc = "found_check"
  /\ hjob # NoneVal
  /\ IF jobs[hjob[1]].status # "completed"
       THEN /\ resp' = Response("download", 400, "not completed", NoneVal,
                                jobs[hjob[1]].status, NoneVal, NoneVal)
            /\ Return
       ELSE /\ hpc' = "path_check"
            /\ UNCHANGED <<hop, hid, hjob, hresp, resp>>
  /\ UNCHANGED <<jobs, store, lock, files, wpc, wkw, wjob, wres>>
  /\ UNCHANGED <<colabVars, batchVars>>

\* download, lines 242-249: `if not job.result_path or not Path(
\* job.result_path).exists(): raise 404`, else FileResponse(job.result_path).
DownloadCheckPath ==
  /\ hpc = "path_check"
  /\ IF jobs[hjob[1]].result_path = NoneVal \/ jobs[hjob[1]].result_path[1] \notin files
       THEN resp' = Response("download", 404, "file not found", NoneVal, "",
                             NoneVal, NoneVal)
       ELSE resp' = Response("download", 200, "", hid, "",
                             jobs[hjob[1]].result_path, NoneVal)
  /\ Return
  /\ UNCHANGED <<jobs, store, lock, files, wpc, wkw, wjob, wres>>
  /\ UNCHANGED <<colabVars, batchVars>>

\* =================================================== colab_client.py

\* Strings are sequences of pieces; a piece is a run of characters the code
\* never looks inside. " " is whitespace, "http" the four characters
\* startswith("http") looks for.
Space == " "

\* str.strip(): leading and trailing whitespace removed.
RECURSIVE StripLeft(_)
StripLeft(s) == IF s # <<>> /\ Head(s) = Space THEN StripLeft(Tail(s)) ELSE s

RECURSIVE StripRight(_)
StripRight(s) ==
  IF s # <<>> /\ s[Len(s)] = Space THEN StripRight(SubSeq(s, 1, Len(s) - 1)) ELSE s

Strip(s) == StripRight(StripLeft(s))

\* str.startswith("http").
StartsWithHttp(s) == s # <<>> /\ Head(s) = "http"

\* connect, lines 35-41: the URL Client is made for: stripped, and with
\* "https://" put in front when it does not start with "http".
CleanUrl(raw) ==
  IF StartsWithHttp(Strip(raw)) THEN Strip(raw) ELSE <<"http", "s://">> \o Strip(raw)

\* The colab_url arguments connect is called with.
RawUrls ==
  { <<>>, <<Space>>, <<"a.gradio.live">>, <<Space, "a.gradio.live", Space>>,
    <<"http", "://", "a.gradio.live">>, <<Space, "http", "s://", "a.gradio.live">> }

\* api_names_to_try, lines 90-96. "default" is None (no api_name given),
\* "fn_index 0" the integer 0 (passed as fn_index).
api_names_to_try ==
  <<"default", "/generate", "/generate_0", "/generate_video", "fn_index 0">>

\* What self.client.predict may return: None; a tuple of two or more whose
\* second item is a path string, a truthy value that is no path (on which
\* os.path.exists raises TypeError), a falsy value, or a value whose truth
\* test raises; a shorter tuple; a string; anything else.
RemoteValues ==
  { NoneVal, Some(<<"tuple", "path">>), Some(<<"tuple", "no path">>),
    Some(<<"tuple", "falsy">>), Some(<<"tuple", "no truth value">>),
    Some(<<"short tuple", "">>), Some(<<"str", "">>), Some(<<"other", "">>) }

\* str(e) of the exception `if video_path:` raises on such a value.
TruthValueError == "truth value is ambiguous"

\* str(e) of what self.client.predict may raise.
RemoteErrors ==
  {"Cannot find a function", "queue is full", "Cannot find the Queue",
   "connection reset"}

\* str(e) of the AttributeError of None.predict, when self.client is None.
NoClientError == "'NoneType' object has no attribute 'predict'"

\* "Cannot find" in last_error, line 134.
HasCannotFind(m) == m \in {"Cannot find a function", "Cannot find the Queue"}

\* "queue" in error_msg.lower(), line 158.
HasQueue(m) == m \in {"queue is full", "Cannot find the Queue"}

\* The is_connected property, lines 60-62.
is_connected == connected /\ client # NoneVal

\* generate's return values: (status_message, video_path or None). The
\* message is its fixed text and the text put into it.
NotConnectedRet == << <<"Not connected to Colab", "">>, NoneVal >>

\* _download_video, lines 162-174: the path itself, or None when
\* os.path.exists raises on it.
download_video(remote_path) ==
  IF remote_path = "path" THEN Some("path") ELSE NoneVal

\* A return statement of generate.
GenReturn(v) ==
  /\ gret' = v
  /\ gpc' = "idle"

\* generate is called: its locals are fresh.
GenCall ==
  /\ gpc = "idle"
  /\ gpc' = "check_flag"
  /\ gidx' = 0
  /\ gresult' = NoneVal
  /\ glast_error' = NoneVal
  /\ gexc' = NoneVal
  /\ gcalled' = <<>>
  /\ gret' = NoneVal
  /\ UNCHANGED <<client, colab_url, connected, cpc, curl, carg, cprev, cret>>
  /\ UNCHANGED <<apiVars, batchVars>>

\* A mutant of GenCheckFlag: is_connected looks at self.client alone.
M_GenCheckFlag ==
  /\ gpc = "check_flag"
  /\ gpc' = "check_client"
  /\ UNCHANGED <<client, colab_url, connected, cpc, curl, carg, cprev, cret, gidx, gresult,
                 glast_error, gexc, gcalled, gret>>
  /\ UNCHANGED <<apiVars, batchVars>>

\* generate, line 85 -> is_connected, line 62: self._is_connected is read.
GenCheckFlag ==
  /\ gpc = "check_flag"
  /\ IF connected
       THEN gpc' = "check_client" /\ UNCHANGED gret
       ELSE GenReturn(NotConnectedRet)
  /\ UNCHANGED <<client, colab_url, connected, cpc, curl, carg, cprev, cret, gidx, gresult,
                 glast_error, gexc, gcalled>>
  /\ UNCHANGED <<apiVars, batchVars>>

\* generate, line 85 -> is_connected, line 62: self.client is read.
GenCheckClient ==
  /\ gpc = "check_client"
  /\ IF client # NoneVal
       THEN gpc' = "loop" /\ gidx' = 1 /\ UNCHANGED gret
       ELSE GenReturn(NotConnectedRet) /\ UNCHANGED gidx
  /\ UNCHANGED <<client, colab_url, connected, cpc, curl, carg, cprev, cret, gresult,
                 glast_error, gexc, gcalled>>
  /\ UNCHANGED <<apiVars, batchVars>>

\* generate, lines 103-130: self.client is None (disconnect ran since the
\* check): self.client.predict raises AttributeError, no request is sent.
GenPredictNoClient ==
  /\ gpc = "loop"
  /\ client = NoneVal
  /\ gexc' = Some(NoClientError)
  /\ gpc' = "inner_except"
  /\ UNCHANGED <<client, colab_url, connected, cpc, curl, carg, cprev, cret, gidx, gresult,
                 glast_error, gcalled, gret>>
  /\ UNCHANGED <<apiVars, batchVars>>

\* generate, lines 103-131: the request to the endpoint api_name returns a
\* value; break.
GenPredictReturns ==
  /\ gpc = "loop"
  /\ client # NoneVal
  /\ gcalled' = Append(gcalled, <<api_names_to_try[gidx], "returned">>)
  /\ \E v \in RemoteValues : gresult' = v
  /\ gpc' = "after_loop"
  /\ UNCHANGED <<client, colab_url, connected, cpc, curl, carg, cprev, cret, gidx,
                 glast_error, gexc, gret>>
  /\ UNCHANGED <<apiVars, batchVars>>

\* generate, lines 103-130: the request to the endpoint api_name raises.
GenPredictRaises ==
  /\ gpc = "loop"
  /\ client # NoneVal
  /\ \E m \in RemoteErrors :
       /\ gexc' = Some(m)
       /\ gcalled' = Append(gcalled, <<api_names_to_try[gidx], m>>)
  /\ gpc' = "inner_except"
  /\ UNCHANGED <<client, colab_url, connected, cpc, curl, carg, cprev, cret, gidx, gresult,
                 glast_error, gret>>
  /\ UNCHANGED <<apiVars, batchVars>>

\* A mutant of GenInnerExcept: every error moves on to the next api_name.
M_GenInnerExcept ==
  /\ gpc = "inner_except"
  /\ glast_error' = gexc
  /\ gexc' = NoneVal
  /\ IF gidx = Len(api_names_to_try)
       THEN gpc' = "after_loop" /\ UNCHANGED gidx
       ELSE gpc' = "loop" /\ gidx' = gidx + 1
  /\ UNCHANGED <<client, colab_url, connected, cpc, curl, carg, cprev, cret, gresult,
                 gcalled, gret>>
  /\ UNCHANGED <<apiVars, batchVars>>

\* generate, lines 132-137: last_error = str(e); raise again unless it has
\* "Cannot find", else continue with the next api_name (or leave the loop
\* after the last).
GenInnerExcept ==
  /\ gpc = "inner_except"
  /\ glast_error' = gexc
  /\ IF ~HasCannotFind(gexc[1])
       THEN gpc' = "outer_except" /\ UNCHANGED <<gexc, gidx>>
       ELSE /\ gexc' = NoneVal
            /\ IF gidx = Len(api_names_to_try)
                 THEN gpc' = "after_loop" /\ UNCHANGED gidx
                 ELSE gpc' = "loop" /\ gidx' = gidx + 1
  /\ UNCHANGED <<client, colab_url, connected, cpc, curl, carg, cprev, cret, gresult,
                 gcalled, gret>>
  /\ UNCHANGED <<apiVars, batchVars>>

\* generate, lines 139-154: the return after the loop; an exception raised
\* on the way goes to the outer except.
GenAfterLoop ==
  /\ gpc = "after_loop"
  /\ IF gresult # NoneVal /\ gresult[1] = <<"tuple", "no truth value">>
       THEN /\ gexc' = Some(TruthValueError)
            /\ gpc' = "outer_except"
            /\ UNCHANGED gret
       ELSE /\ GenReturn(
                 IF gresult = NoneVal
                   THEN << <<"Could not find generate endpoint",
                             IF glast_error = NoneVal THEN "None" ELSE glast_error[1]>>,
                           NoneVal >>
                 ELSE IF gresult[1][1] = "tuple"
                   THEN IF gresult[1][2] # "falsy"
                          THEN << <<"remote status", "">>, download_video(gresult[1][2]) >>
                          ELSE << <<"remote status", "">>, NoneVal >>
                 ELSE << <<"Generated!", "">>,
                         IF gresult[1][1] = "str" THEN Some("path") ELSE NoneVal >>)
            /\ UNCHANGED gexc
  /\ UNCHANGED <<client, colab_url, connected, cpc, curl, carg, cprev, cret, gidx, gresult,
                 glast_error, gcalled>>
  /\ UNCHANGED <<apiVars, batchVars>>

\* A mutant of GenOuterExcept: the handler catches what the remote call
\* raises, not the AttributeError of a client that is gone.
M_GenOuterExcept ==
  /\ gpc = "outer_except"
  /\ IF gexc[1] = NoClientError
       THEN gpc' = "raised" /\ UNCHANGED gret
       ELSE GenReturn(IF HasQueue(gexc[1])
                        THEN << <<"Colab is busy", "">>, NoneVal >>
                        ELSE << <<"Generation failed", gexc[1]>>, NoneVal >>)
  /\ gexc' = NoneVal
  /\ UNCHANGED <<client, colab_url, connected, cpc, curl, carg, cprev, cret, gidx, gresult,
                 glast_error, gcalled>>
  /\ UNCHANGED <<apiVars, batchVars>>

\* generate, lines 156-160: except Exception: the busy message when the
\* error has "queue", the failure message otherwise.
GenOuterExcept ==
  /\ gpc = "outer_except"
  /\ GenReturn(IF HasQueue(gexc[1])
                 THEN << <<"Colab is busy", "">>, NoneVal >>
                 ELSE << <<"Generation failed", gexc[1]>>, NoneVal >>)
  /\ gexc' = NoneVal
  /\ UNCHANGED <<client, colab_url, connected, cpc, curl, carg, cprev, cret, gidx, gresult,
                 glast_error, gcalled>>
  /\ UNCHANGED <<apiVars, batchVars>>

\* No connect or disconnect call has returned since the last one began.
NoRet == <<"none", NoneVal>>

\* A return of connect, with (success, message), or of disconnect, with None.
ConnReturn(method, v) ==
  /\ cret' = <<method, v>>
  /\ cpc' = "idle"
  /\ curl' = NoneVal

\* A mutant of ConnectClean: the URL is used as given, not stripped.
M_ConnectClean ==
  /\ cpc = "idle"
  /\ \E raw \in RawUrls :
       /\ carg' = Some(raw)
       /\ cprev' = cret
       /\ IF raw = <<>>
            THEN ConnReturn("connect", <<FALSE, "Please enter a Colab URL">>)
            ELSE /\ curl' = Some(IF StartsWithHttp(raw) THEN raw
                                 ELSE <<"http", "s://">> \o raw)
                 /\ cpc' = "make_client"
                 /\ cret' = NoRet
  /\ UNCHANGED <<client, colab_url, connected, gpc, gidx, gresult, glast_error,
                 gexc, gcalled, gret>>
  /\ UNCHANGED <<apiVars, batchVars>>

\* connect, lines 35-41: the URL is cleaned; an empty one is refused.
ConnectClean ==
  /\ cpc = "idle"
  /\ \E raw \in RawUrls :
       /\ carg' = Some(raw)
       /\ cprev' = cret
       /\ IF Strip(raw) = <<>>
            THEN ConnReturn("connect", <<FALSE, "Please enter a Colab URL">>)
            ELSE /\ curl' = Some(CleanUrl(raw))
                 /\ cpc' = "make_client"
                 /\ cret' = NoRet
  /\ UNCHANGED <<client, colab_url, connected, gpc, gidx, gresult, glast_error,
                 gexc, gcalled, gret>>
  /\ UNCHANGED <<apiVars, batchVars>>

\* connect, line 44: self.client = Client(url), Client made.
ConnectClient ==
  /\ cpc = "make_client"
  /\ client' = curl
  /\ cpc' = "set_url"
  /\ UNCHANGED <<colab_url, connected, curl, carg, cprev, cret, gpc, gidx, gresult,
                 glast_error, gexc, gcalled, gret>>
  /\ UNCHANGED <<apiVars, batchVars>>

\* connect, lines 44, 50-52: Client(url) raises: _is_connected = False.
ConnectFails ==
  /\ cpc = "make_client"
  /\ connected' = FALSE
  /\ ConnReturn("connect", <<FALSE, "Connection failed">>)
  /\ UNCHANGED <<client, colab_url, carg, cprev, gpc, gidx, gresult, glast_error, gexc,
                 gcalled, gret>>
  /\ UNCHANGED <<apiVars, batchVars>>

\* connect, line 45: self.colab_url = url.
ConnectSetUrl ==
  /\ cpc = "set_url"
  /\ colab_url' = curl
  /\ cpc' = "set_flag"
  /\ UNCHANGED <<client, connected, curl, carg, cprev, cret, gpc, gidx, gresult,
                 glast_error, gexc, gcalled, gret>>
  /\ UNCHANGED <<apiVars, batchVars>>

\* connect, lines 46-48: self._is_connected = True; return True.
ConnectSetFlag ==
  /\ cpc = "set_flag"
  /\ connected' = TRUE
  /\ ConnReturn("connect", <<TRUE, "Connected to Colab!">>)
  /\ UNCHANGED <<client, colab_url, carg, cprev, gpc, gidx, gresult, glast_error, gexc,
                 gcalled, gret>>
  /\ UNCHANGED <<apiVars, batchVars>>

\* A mutant of DisconnectClient: the client is dropped only when the flag
\* says connected.
M_DisconnectClient ==
  /\ cpc = "idle"
  /\ client' = IF connected THEN NoneVal ELSE client
  /\ cpc' = "clear_url"
  /\ cret' = NoRet
  /\ carg' = NoneVal
  /\ cprev' = cret
  /\ UNCHANGED <<colab_url, connected, curl, gpc, gidx, gresult, glast_error,
                 gexc, gcalled, gret>>
  /\ UNCHANGED <<apiVars, batchVars>>

\* disconnect, line 56: self.client = None.
DisconnectClient ==
  /\ cpc = "idle"
  /\ client' = NoneVal
  /\ cpc' = "clear_url"
  /\ cret' = NoRet
  /\ carg' = NoneVal
  /\ cprev' = cret
  /\ UNCHANGED <<colab_url, connected, curl, gpc, gidx, gresult, glast_error,
                 gexc, gcalled, gret>>
  /\ UNCHANGED <<apiVars, batchVars>>

\* disconnect, line 57: self.colab_url = None.
DisconnectUrl ==
  /\ cpc = "clear_url"
  /\ colab_url' = NoneVal
  /\ cpc' = "clear_flag"
  /\ UNCHANGED <<client, connected, curl, carg, cprev, cret, gpc, gidx, gresult,
                 glast_error, gexc, gcalled, gret>>
  /\ UNCHANGED <<apiVars, batchVars>>

\* disconnect, line 58: self._is_connected = False; None is returned.
DisconnectFlag ==
  /\ cpc = "clear_flag"
  /\ connected' = FALSE
  /\ ConnReturn("disconnect", NoneVal)
  /\ UNCHANGED <<client, colab_url, carg, cprev, gpc, gidx, gresult, glast_error, gexc,
                 gcalled, gret>>
  /\ UNCHANGED <<apiVars, batchVars>>

\* ============================================================== app.py

\* A list of n job objects; job i is the dict with prompt i.
JobList(n) == [i \in 1..n |-> i]

\* The texts pasted into the Batch JSON box: blank; not JSON; a JSON object
\* with a "jobs" list; a JSON object without the key; a JSON array of job
\* objects. A text is <<what it is, the list in it if any>>.
BatchTexts ==
  {<<"blank", NoneVal>>, <<"invalid", NoneVal>>, <<"object", NoneVal>>}
    \cup {<<"object", Some(JobList(n))>> : n \in 0..MaxBatch}
    \cup {<<"array", Some(JobList(n))>> : n \in 0..MaxBatch}

\* isinstance(data, list), line 618.
IsList(data) == data[1] = "array"

\* data has the method get: a dict has, a list has not.
HasGet(data) == data[1] = "object"

\* data.get("jobs", default) of a dict.
DataGet(data, default) == IF data[2] # NoneVal THEN data[2][1] ELSE default

\* What colab.generate returns to run_batch (colab_client.py, the return
\* statements of generate): (status_message, video_path or None).
GenerateReturns ==
  { NotConnectedRet,
    << <<"remote status", "">>, Some("path") >>,
    << <<"remote status", "">>, NoneVal >>,
    << <<"Generated!", "">>, Some("path") >>,
    << <<"Generation failed", "connection reset">>, NoneVal >> }

\* run_batch ends: it returns the text, or the exception leaves it.
BatchEnd(how, what) ==
  /\ bret' = <<how, what>>
  /\ bpc' = "idle"
  /\ bjobs' = <<>>
  /\ bi' = 0

\* run_batch, lines 608-611: called with a text; a blank one is refused.
BatchCall ==
  /\ bpc = "idle"
  /\ \E t \in BatchTexts :
       /\ btext' = t
       /\ IF t[1] = "blank"
            THEN BatchEnd("returned", "Please enter batch JSON")
            ELSE /\ bpc' = "check_flag"
                 /\ bret' = NoneVal
                 /\ bjobs' = <<>>
                 /\ bi' = 0
  /\ bcalls' = <<>>
  /\ bresults' = <<>>
  /\ UNCHANGED <<apiVars, colabVars>>

\* run_batch, line 613 -> is_connected: self._is_connected is read.
BatchCheckFlag ==
  /\ bpc = "check_flag"
  /\ IF connected
       THEN bpc' = "check_client" /\ UNCHANGED <<bjobs, bi, bret>>
       ELSE BatchEnd("returned", "Connect to Colab first!")
  /\ UNCHANGED <<btext, bcalls, bresults>>
  /\ UNCHANGED <<apiVars, colabVars>>

\* run_batch, line 613 -> is_connected: self.client is read.
BatchCheckClient ==
  /\ bpc = "check_client"
  /\ IF client # NoneVal
       THEN bpc' = "parse" /\ UNCHANGED <<bjobs, bi, bret>>
       ELSE BatchEnd("returned", "Connect to Colab first!")
  /\ UNCHANGED <<btext, bcalls, bresults>>
  /\ UNCHANGED <<apiVars, colabVars>>

\* run_batch, lines 616-620: data = json.loads(batch_json), which raises
\* JSONDecodeError on a text that is no JSON; jobs = data.get("jobs", data
\* if isinstance(data, list) else []), which raises AttributeError when data
\* has no get; only JSONDecodeError is caught.
BatchParse ==
  /\ bpc = "parse"
  /\ IF btext[1] = "invalid"
       THEN BatchEnd("returned", "Invalid JSON")
       ELSE IF ~HasGet(btext)
         THEN BatchEnd("raised", "AttributeError")
         ELSE /\ bjobs' = DataGet(btext, IF IsList(btext) THEN btext[2][1] ELSE <<>>)
              /\ bpc' = "loop"
              /\ UNCHANGED <<bi, bret>>
  /\ UNCHANGED <<btext, bcalls, bresults>>
  /\ UNCHANGED <<apiVars, colabVars>>

\* run_batch, lines 623-640: one turn of the for loop: colab.generate is
\* called with the job's prompt and the outcome is put into results.
BatchGenerate ==
  /\ bpc = "loop"
  /\ bi < Len(bjobs)
  /\ bcalls' = Append(bcalls, bjobs[bi + 1])
  /\ \E r \in GenerateReturns :
       bresults' = Append(bresults, IF r[2] # NoneVal THEN <<"Done", "path">>
                                    ELSE <<"Failed", r[1][1]>>)
  /\ bi' = bi + 1
  /\ UNCHANGED <<bpc, btext, bjobs, bret>>
  /\ UNCHANGED <<apiVars, colabVars>>

\* run_batch, lines 642-643: the loop is over, the results are returned.
BatchComplete ==
  /\ bpc = "loop"
  /\ bi = Len(bjobs)
  /\ BatchEnd("returned", "Batch complete")
  /\ UNCHANGED <<btext, bcalls, bresults>>
  /\ UNCHANGED <<apiVars, colabVars>>

\* ---------------------------------------------------------- the program

Next ==
  \/ GenerateCreate
  \/ CreateAcquire
  \/ CreateInsert
  \/ GenerateStartThread
  \/ GenerateRespond
  \/ \E w \in Workers : UpdateAcquire(w)
  \/ \E w \in Workers : UpdateSetattr(w)
  \/ \E w \in Workers : UpdateRelease(w)
  \/ \E w \in Workers : TryRaises(w)
  \/ \E w \in Workers : EngineReturn(w)
  \/ RequestBegin("status")
  \/ RequestBegin("download")
  \/ GetAcquire
  \/ GetLookup
  \/ NotFound
  \/ StatusReadStatus
  \/ StatusReadResultPath
  \/ StatusRespond
  \/ DownloadCheckStatus
  \/ DownloadCheckPath

\* api.py: the job API's threads.
Spec == Init /\ [][Next]_vars

\* api.py under fair scheduling: a worker thread that can take a step takes
\* it, a thread waiting for the store lock gets it (strong fairness: the lock
\* is free again and again, not all the time), the event loop finishes the
\* store call it is in, and the engine call returns or raises.
FairSpec ==
  /\ Spec
  /\ \A w \in Workers :
       /\ SF_vars(UpdateAcquire(w))
       /\ WF_vars(UpdateSetattr(w))
       /\ WF_vars(UpdateRelease(w))
       /\ WF_vars(TryRaises(w) \/ EngineReturn(w))
  /\ SF_vars(CreateAcquire)
  /\ WF_vars(CreateInsert)
  /\ WF_vars(GenerateStartThread)
  /\ WF_vars(GetLookup)

\* colab_client.py: one thread calling generate, one calling connect and
\* disconnect, on the singleton ColabClient.
NextColab ==
  \/ GenCall
  \/ GenCheckFlag
  \/ GenCheckClient
  \/ GenPredictNoClient
  \/ GenPredictReturns
  \/ GenPredictRaises
  \/ GenInnerExcept
  \/ GenAfterLoop
  \/ GenOuterExcept
  \/ ConnectClean
  \/ ConnectClient
  \/ ConnectFails
  \/ ConnectSetUrl
  \/ ConnectSetFlag
  \/ DisconnectClient
  \/ DisconnectUrl
  \/ DisconnectFlag

SpecColab == Init /\ [][NextColab]_vars

\* app.py: the thread of the Batch Generation handler and the thread calling
\* connect and disconnect on the ColabClient run_batch uses.
NextBatch ==
  \/ BatchCall
  \/ BatchCheckFlag
  \/ BatchCheckClient
  \/ BatchParse
  \/ BatchGenerate
  \/ BatchComplete
  \/ ConnectClean
  \/ ConnectClient
  \/ ConnectFails
  \/ ConnectSetUrl
  \/ ConnectSetFlag
  \/ DisconnectClient
  \/ DisconnectUrl
  \/ DisconnectFlag

SpecBatch == Init /\ [][NextBatch]_vars

\* ------------------------------------------------------------ vocabulary

\* The Job objects constructed so far.
Made == 1..Len(jobs)

\* store.create has returned Job object r to generate.
Created(r) ==
  /\ r \in Made
  /\ ~(hjob = Some(r) /\ hpc \in {"create_lock", "create_locked"})

\* No two Job objects were given the same id.
NoRepeatedId == \A r1, r2 \in Made : jobs[r1].job_id = jobs[r2].job_id => r1 = r2

\* The handler of a download (status) request takes a step.
DownloadStep == hpc' # hpc /\ (hop = "download" \/ hop' = "download")

StatusStep == hpc' # hpc /\ (hop = "status" \/ hop' = "status")

Terminal == {"completed", "failed"}

\* The moves of a job's status the API documents.
StatusMoves ==
  {<<"queued", "running">>, <<"running", "completed">>, <<"running", "failed">>}

\* ------------------------------------------------------------------- C1

\* C1: a job's status changes only queued -> running, running -> completed
\* or running -> failed: never backwards, never past "running", never out
\* of "completed" or "failed".
C1_StatusLifecycle ==
  [][\A r \in Made :
       jobs'[r].status # jobs[r].status
         => <<jobs[r].status, jobs'[r].status>> \in StatusMoves]_vars

\* C1, diagnosis: the lifecycle is kept as long as no id is drawn twice.
C1_LifecycleWhileIdsDiffer ==
  [][NoRepeatedId' =>
       \A r \in Made :
         jobs'[r].status # jobs[r].status
           => <<jobs[r].status, jobs'[r].status>> \in StatusMoves]_vars

\* ------------------------------------------------------------------- C2

\* At most one thread is inside a `with self._lock` block, and a thread is
\* inside one exactly when it holds the lock.
MutualExclusion ==
  /\ Cardinality(lock) <= 1
  /\ \A w \in Workers : wpc[w] = "in_update" <=> w \in lock
  /\ hpc \in {"create_locked", "get_locked"} <=> EventLoop \in lock

\* A job some update call has assigned only part of its kwargs to.
HalfUpdated(r) ==
  \/ jobs[r].status = "completed" /\ jobs[r].result_path = NoneVal
  \/ jobs[r].status = "failed" /\ jobs[r].error = NoneVal
  \/ jobs[r].status \in Terminal /\ jobs[r].duration_seconds = 0

\* No create, get or update call sees an update half done: a half-updated
\* job exists only while the updating thread holds the lock.
UpdateAtomic ==
  (\E r \in Made : HalfUpdated(r)) => \E w \in Workers : lock = {w}

\* Every Job object create() has returned is in the mapping.
CreatedJobsStay ==
  \A r \in Made : Created(r) => \E id \in DOMAIN store : store[id] = r

\* C2: JobStore is thread-safe: one thread at a time inside the locked
\* section, every created job stays in the mapping, and the assignments of
\* one update call are one atomic step to every other store call.
C2_ThreadSafe == MutualExclusion /\ CreatedJobsStay /\ UpdateAtomic

\* C2, diagnosis: the lock's part of the claim, without the mapping's.
C2_LockDiscipline == MutualExclusion /\ UpdateAtomic

\* C2, diagnosis: created jobs stay as long as no id is drawn twice.
C2_StayWhileIdsDiffer == NoRepeatedId => CreatedJobsStay

\* ------------------------------------------------------------------- C3

\* C3: generate answers 200 with the new job's id and "queued", that job is
\* in the store and has one worker thread, and the returned id keeps
\* leading GET /api/status to the job it was returned for.
C3_GenerateContract ==
  /\ resp.op = "generate" =>
       /\ resp.code = 200 /\ resp.status = "queued"
       /\ resp.job_id = Some(jobs[Len(jobs)].job_id)
       /\ wpc[Len(jobs)] # "unborn"
  /\ \A r \in JobRefs : wpc[r] # "unborn" => Created(r)
  /\ \A r \in Made : Created(r) => DictGet(store, jobs[r].job_id) = Some(r)

\* C3, diagnosis: the same as long as no id is drawn twice.
C3_ContractWhileIdsDiffer == NoRepeatedId => C3_GenerateContract

\* ------------------------------------------------------------------- C4

\* C4: once a job's worker thread has run to its end (which fair scheduling
\* and a terminating engine call bring about), the job is "completed" or
\* "failed".
C4_FinishedWorkerSettlesJob ==
  \A r \in Made : wpc[r] = "done" => jobs[r].status \in Terminal

\* C4, diagnosis: the same as long as no id is drawn twice.
C4_SettledWhileIdsDiffer == NoRepeatedId => C4_FinishedWorkerSettlesJob

\* C4 as a liveness property (under FairSpec): every job made is eventually
\* "completed" or "failed".
C4_EveryJobSettles ==
  \A r \in JobRefs : (r \in Made) ~> (r \in Made /\ jobs[r].status \in Terminal)

\* C4, diagnosis (under FairSpec): every job made is eventually settled, or
\* an id is drawn twice.
C4_EveryJobSettlesOrIdRepeats ==
  \A r \in JobRefs :
    (r \in Made) ~> (~NoRepeatedId \/ (r \in Made /\ jobs[r].status \in Terminal))

\* ------------------------------------------------------------------- C5

\* The handler of op sends its response in this step.
Answers(op) == resp = NoResp /\ resp' # NoResp /\ resp'.op = op

\* C5: download answers 404 when the id is not in the store, otherwise 400
\* when the job's status is not "completed", otherwise 404 when the job has
\* no result_path or the file is missing, and serves the file only past all
\* three checks, made in that order; none of its steps changes the store,
\* a job or the files.
C5_DownloadOrder ==
  [][/\ DownloadStep => UNCHANGED <<jobs, store, files>>
     /\ DownloadStep /\ hpc = "found_check" =>
          Answers("download") \/ hpc' = "path_check"
     /\ hop = "download" /\ hpc' = "path_check" /\ hpc # "path_check" =>
          /\ hid[1] \in DOMAIN store
          /\ jobs[store[hid[1]]].status = "completed"
     /\ Answers("download") =>
          IF hid[1] \notin DOMAIN store
            THEN resp'.code = 404 /\ resp'.detail = "job not found"
            ELSE LET job == jobs[store[hid[1]]] IN
                 IF hpc = "found_check"
                   THEN job.status # "completed" /\ resp'.code = 400
                   ELSE /\ hpc = "path_check"
                        /\ IF job.result_path = NoneVal \/ job.result_path[1] \notin files
                             THEN resp'.code = 404 /\ resp'.detail = "file not found"
                             ELSE resp'.code = 200 /\ resp'.result_path = job.result_path]_vars

\* C5: a download was served: every check passed.
C5_Witness ==
  /\ resp.op = "download" /\ resp.code = 200
  /\ resp.result_path # NoneVal /\ resp.result_path[1] \in files

\* ------------------------------------------------------------------- C6

\* C6: status answers 404 for an id no generate request returned, and for a
\* known id 200 with the status the job under that id has when the handler
\* reads it; none of its steps changes the store, a job or the files.
C6_StatusLookup ==
  [][/\ StatusStep => UNCHANGED <<jobs, store, files>>
     /\ hop = "status" /\ hpc = "found_check" /\ hpc' = "read_result_path" =>
          /\ hid[1] \in Drawn
          /\ hresp'.status = jobs[store[hid[1]]].status
     /\ Answers("status") =>
          IF hid[1] \notin Drawn
            THEN resp'.code = 404 /\ resp'.detail = "job not found"
            ELSE /\ resp'.code = 200
                 /\ resp'.job_id = hid
                 /\ resp'.status = hresp.status]_vars

\* C6: a status query for a known id answered while the job is running.
C6_Witness ==
  resp.op = "status" /\ resp.code = 200 /\ resp.status = "running"

\* C6: a status query for an id never returned is answered 404.
C6_WitnessUnknown ==
  resp.op = "status" /\ resp.code = 404 /\ Len(jobs) > 0

\* ------------------------------------------------------------------- C8

\* C8: generate is never rejected or held back by the jobs in flight: a free
\* event loop can always take it, its create() waits for nothing but the
\* lock, its answer is always 200, and a started worker's first update waits
\* for nothing but the lock, which no thread holds across an engine call.
C8_NoBackpressure ==
  /\ hpc = "idle" /\ Len(jobs) < MaxJobs => ENABLED GenerateCreate
  /\ hpc = "create_lock" /\ lock = {} => ENABLED CreateAcquire
  /\ hpc = "create_locked" => ENABLED CreateInsert
  /\ hpc = "thread_start" => ENABLED GenerateStartThread
  /\ hpc = "gen_respond" => ENABLED GenerateRespond
  /\ resp.op = "generate" => resp.code = 200
  /\ \A w \in Workers :
       /\ wpc[w] = "call_update" /\ lock = {} => ENABLED UpdateAcquire(w)
       /\ wpc[w] = "try" => w \notin lock

\* C8: every job the model follows is "running" at the same time.
C8_AllJobsRunning ==
  /\ Len(jobs) = MaxJobs
  /\ \A r \in Made : jobs[r].status = "running" /\ wpc[r] = "try"

\* ------------------------------------------------------------------- C7

\* C7: a worker whose engine call returned leaves its job "completed" with
\* result_path set and error None; one whose try block raised leaves it
\* "failed" with error the exception's message and result_path None; and no
\* job ever has both result_path and error set.
C7_ExclusiveOutcome ==
  \A r \in Made :
    /\ ~(jobs[r].result_path # NoneVal /\ jobs[r].error # NoneVal)
    /\ wpc[r] = "done" /\ wres[r] = "returned" =>
         /\ jobs[r].status = "completed"
         /\ jobs[r].result_path # NoneVal /\ jobs[r].error = NoneVal
    /\ wpc[r] = "done" /\ wres[r] = "raised" =>
         /\ jobs[r].status = "failed"
         /\ jobs[r].error = Some(EngineError)
         /\ jobs[r].result_path = NoneVal

\* C7, diagnosis: the same as long as no id is drawn twice.
C7_ExclusiveWhileIdsDiffer == NoRepeatedId => C7_ExclusiveOutcome

\* ------------------------------------------------------------------- C9

\* The fixed texts of generate's status messages.
StatusTexts ==
  {"Not connected to Colab", "Could not find generate endpoint", "Colab is busy",
   "Generation failed", "Generated!", "remote status"}

\* C9: generate never raises and, short of a remote call that never ends,
\* always comes to a return: no exception leaves it, one in flight is inside
\* one of its handlers, a call under way always has a next step, and what it
\* returns is a pair (status message, video path or None), also when
\* disconnect has set self.client to None after the is_connected check.
C9_GenerateNeverRaises ==
  /\ gpc # "raised"
  /\ gexc # NoneVal => gpc \in {"inner_except", "outer_except"}
  /\ gpc # "idle" =>
       ENABLED (GenCheckFlag \/ GenCheckClient \/ GenPredictNoClient
                \/ GenPredictReturns \/ GenPredictRaises \/ GenInnerExcept
                \/ GenAfterLoop \/ GenOuterExcept)
  /\ gret # NoneVal =>
       /\ Len(gret) = 2
       /\ gret[1][1] \in StatusTexts
       /\ gret[2] \in {NoneVal, Some("path")}

\* C9: disconnect ran between the is_connected check and the remote call,
\* and generate returned the failure message.
C9_Witness ==
  gpc = "idle" /\ gret = << <<"Generation failed", NoClientError>>, NoneVal >>

\* ------------------------------------------------------------------ C10

\* C10: a generate call whose is_connected check runs while is_connected is
\* false (no connect or disconnect being under way) returns the "Not
\* connected" message with no video path and has sent no request.
C10_NotConnectedNoCall ==
  [][gpc = "check_flag" /\ gpc' # gpc /\ cpc = "idle" /\ ~is_connected =>
       /\ gret' = NotConnectedRet
       /\ gpc' = "idle"
       /\ gcalled' = <<>>]_vars

\* C10: refused after a connect attempt that failed (the client of an
\* earlier connect is still there).
C10_WitnessFailedConnect ==
  /\ gpc = "idle" /\ gret = NotConnectedRet /\ gcalled = <<>>
  /\ cpc = "idle" /\ cret = <<"connect", <<FALSE, "Connection failed">>>>
  /\ client # NoneVal

\* C10: refused before any connect.
C10_WitnessBeforeConnect ==
  /\ gpc = "idle" /\ gret = NotConnectedRet /\ gcalled = <<>>
  /\ cpc = "idle" /\ cret = NoRet

\* C10: refused after disconnect.
C10_WitnessAfterDisconnect ==
  /\ gpc = "idle" /\ gret = NotConnectedRet /\ gcalled = <<>>
  /\ cpc = "idle" /\ cret = <<"disconnect", NoneVal>>

\* ------------------------------------------------------------------ C11

\* C11: the requests of one generate call go to the candidates in their
\* fixed order (default, /generate, /generate_0, /generate_video, function
\* index 0), so there are five at most; every request before the last one
\* raised an error with "Cannot find" in its text, so nothing follows a
\* request that returned or raised another error; and after an error with
\* "Cannot find" the next candidate is tried, as long as there is one and
\* the client has not been taken away by disconnect.
C11_ProbeOrder ==
  /\ Len(gcalled) <= Len(api_names_to_try)
  /\ Len(api_names_to_try) = 5
  /\ \A i \in 1..Len(gcalled) :
       /\ gcalled[i][1] = api_names_to_try[i]
       /\ i < Len(gcalled) => HasCannotFind(gcalled[i][2])
  /\ (gpc = "idle" /\ gcalled # <<>> /\ HasCannotFind(gcalled[Len(gcalled)][2])) =>
       \/ Len(gcalled) = Len(api_names_to_try)
       \/ gret = << <<"Generation failed", NoClientError>>, NoneVal >>

\* C11: all five candidates were asked, none was found.
C11_WitnessAllFive ==
  /\ gpc = "idle"
  /\ Len(gcalled) = 5
  /\ gcalled[5] = <<"fn_index 0", "Cannot find a function">>
  /\ gret = << <<"Could not find generate endpoint", "Cannot find a function">>, NoneVal >>

\* C11: the third candidate raised another error and nothing was asked after.
C11_WitnessOtherError ==
  /\ gpc = "idle"
  /\ Len(gcalled) = 3
  /\ gcalled[3] = <<"/generate_0", "connection reset">>
  /\ gret = << <<"Generation failed", "connection reset">>, NoneVal >>

\* C11: the second candidate returned and nothing was asked after.
C11_WitnessReturned ==
  /\ gpc = "idle"
  /\ Len(gcalled) = 2
  /\ gcalled[2] = <<"/generate", "returned">>
  /\ gret = << <<"Generated!", "">>, Some("path") >>

\* ------------------------------------------------------------------ C12

\* The cleaned URL as the claim has it: whitespace stripped, "https://" put
\* in front when what is left does not start with "http".
Cleaned(raw) ==
  IF Strip(raw) # <<>> /\ Head(Strip(raw)) = "http"
    THEN Strip(raw)
    ELSE <<"http", "s://">> \o Strip(raw)

\* Client(url) has returned in the connect call under way.
ClientMade == cpc \in {"set_url", "set_flag"}

\* A step in which a connect call returns.
ConnectReturns ==
  /\ cpc' = "idle"
  /\ cret'[1] = "connect"
  /\ <<cpc, cret, carg>>' # <<cpc, cret, carg>>

\* C12: the client connect makes is made for the cleaned URL of its argument;
\* connect returns a pair (success, message) whose success is True exactly
\* when the call made a client; and when it returns True, is_connected is
\* true and colab_url is the cleaned URL, which starts with "http".
C12_ConnectContract ==
  [][/\ ClientMade' => client' = Some(Cleaned(carg'[1]))
     /\ ConnectReturns =>
          /\ Len(cret'[2]) = 2
          /\ cret'[2][1] \in BOOLEAN
          /\ cret'[2][1] <=> ClientMade
          /\ cret'[2][1] =>
               /\ is_connected'
               /\ client' = Some(Cleaned(carg'[1]))
               /\ colab_url' = Some(Cleaned(carg'[1]))
               /\ colab_url'[1][1] = "http"]_vars

\* C12: connect(" a.gradio.live ") returned True and the client is
\* connected to https://a.gradio.live.
C12_Witness ==
  /\ cpc = "idle"
  /\ carg = Some(<<Space, "a.gradio.live", Space>>)
  /\ cret = <<"connect", <<TRUE, "Connected to Colab!">>>>
  /\ colab_url = Some(<<"http", "s://", "a.gradio.live">>)
  /\ is_connected

\* C12: connect("http://a.gradio.live") made no client and returned False,
\* after an earlier connect that had succeeded.
C12_WitnessFailed ==
  /\ cpc = "idle"
  /\ carg = Some(<<"http", "://", "a.gradio.live">>)
  /\ cret = <<"connect", <<FALSE, "Connection failed">>>>
  /\ client = Some(<<"http", "s://", "a.gradio.live">>)

\* C12: connect("  ") returned False without trying.
C12_WitnessEmpty ==
  /\ cpc = "idle"
  /\ carg = Some(<<Space>>)
  /\ cret = <<"connect", <<FALSE, "Please enter a Colab URL">>>>

\* ------------------------------------------------------------------ C13

\* What disconnect is to leave behind.
Disconnected == client = NoneVal /\ colab_url = NoneVal /\ ~connected

\* The return value of disconnect.
DisconnectRet == <<"disconnect", NoneVal>>

\* A second disconnect, called right after a disconnect, is under way or
\* has returned.
SecondDisconnect ==
  /\ cprev = DisconnectRet
  /\ cpc \in {"clear_url", "clear_flag"} \/ (cpc = "idle" /\ cret = DisconnectRet)

\* C13: when disconnect returns, client and colab_url are None and
\* is_connected is false, whatever the state it was called in; a second
\* disconnect changes nothing of that, at any point of it; and a connect
\* that succeeds after a disconnect leaves is_connected true.
C13_Disconnect ==
  [][/\ (cpc = "clear_flag" /\ cpc' = "idle") =>
          /\ Disconnected'
          /\ ~is_connected'
          /\ cret' = DisconnectRet
     /\ SecondDisconnect' => Disconnected' /\ ~is_connected'
     /\ (ConnectReturns /\ cprev' = DisconnectRet /\ cret'[2][1]) =>
          is_connected' /\ client' # NoneVal /\ colab_url' # NoneVal]_vars

\* C13: disconnect has returned twice in a row, on a client that had been
\* connected and had sent a request before.
C13_WitnessTwice ==
  /\ cpc = "idle"
  /\ cret = DisconnectRet
  /\ cprev = DisconnectRet
  /\ Disconnected
  /\ gcalled # <<>>

\* C13: disconnect has returned, called on a connected client.
C13_WitnessFromConnected ==
  /\ cpc = "idle"
  /\ cret = DisconnectRet
  /\ cprev = <<"connect", <<TRUE, "Connected to Colab!">>>>
  /\ Disconnected

\* C13: disconnect has returned, called after a connect that failed, on a
\* client that had been connected and had sent a request before.
C13_WitnessFromFailed ==
  /\ cpc = "idle"
  /\ cret = DisconnectRet
  /\ cprev = <<"connect", <<FALSE, "Connection failed">>>>
  /\ Disconnected
  /\ gcalled # <<>>

\* C13: connected again by a connect after a disconnect.
C13_WitnessReconnect ==
  /\ cpc = "idle"
  /\ cret = <<"connect", <<TRUE, "Connected to Colab!">>>>
  /\ cprev = DisconnectRet
  /\ is_connected

\* ------------------------------------------------------------------ C14

\* The pasted text is in one of the two documented shapes.
DocumentedShape ==
  /\ btext # NoneVal
  /\ btext[1] \in {"object", "array"}
  /\ btext[2] # NoneVal

\* run_batch has ended on the pasted text, and not by refusing it for want
\* of a connection.
BatchEnded ==
  /\ bpc = "idle"
  /\ bret # NoneVal
  /\ bret # <<"returned", "Connect to Colab first!">>

\* C14: a run_batch call on a text in either documented shape, an object
\* with a "jobs" list or a top-level array of job objects, ends by returning
\* the batch report, having called colab.generate once for each listed job,
\* in order, with one result per job.
C14_BothShapes ==
  (BatchEnded /\ DocumentedShape) =>
    /\ bret = <<"returned", "Batch complete">>
    /\ bcalls = btext[2][1]
    /\ Len(bresults) = Len(btext[2][1])

\* C14, diagnosis: the same for the object shape alone.
C14_ObjectShape ==
  (BatchEnded /\ DocumentedShape /\ btext[1] = "object") =>
    /\ bret = <<"returned", "Batch complete">>
    /\ bcalls = btext[2][1]
    /\ Len(bresults) = Len(btext[2][1])

\* C14: a top-level array of two job objects was pasted while connected;
\* run_batch ended with an AttributeError and generated nothing.
C14_WitnessArrayRaises ==
  /\ bpc = "idle"
  /\ btext = <<"array", Some(JobList(MaxBatch))>>
  /\ bret = <<"raised", "AttributeError">>
  /\ bcalls = <<>>

\* C14: an object with two jobs was pasted and both were generated.
C14_WitnessObject ==
  /\ bpc = "idle"
  /\ btext = <<"object", Some(JobList(MaxBatch))>>
  /\ bret = <<"returned", "Batch complete">>
  /\ bcalls = JobList(MaxBatch)

\* ------------------------------------------------------------------ C15

\* C15: a create call that changes the store puts its job under an id that
\* was not in it, leaves every entry there was as it was, and so adds one
\* entry: the store then holds as many jobs as generate requests have
\* created.
C15_CreateNeverReplaces ==
  [][store' # store =>
       /\ hid[1] \notin DOMAIN store
       /\ \A id \in DOMAIN store : id \in DOMAIN store' /\ store'[id] = store[id]
       /\ Cardinality(DOMAIN store') = Cardinality(DOMAIN store) + 1
       /\ Cardinality(DOMAIN store') = Len(jobs')]_vars

\* C15: two generate requests were answered, both jobs got the same id, and
\* the store holds one job: the second has replaced the first.
C15_WitnessReplaced ==
  /\ Len(jobs) = 2
  /\ hpc = "idle"
  /\ resp.op = "generate"
  /\ jobs[1].job_id = jobs[2].job_id
  /\ Cardinality(DOMAIN store) = 1
  /\ DictGet(store, jobs[1].job_id) = Some(2)

====
